---- MODULE Spec2Model ----
(***************************************************************************)
(* heroesoftheswarm: the swarm command language (swarm_language.rs) and    *)
(* the world (world.rs).                                                   *)
(*                                                                         *)
(* A string is a sequence of one-character strings, so that trimming,      *)
(* splitting on whitespace, upper-casing and numeric parsing are computed  *)
(* character by character as the Rust code computes them.                  *)
(*                                                                         *)
(* Three specifications share the module:                                  *)
(*   SpecParse  one line of text through SwarmCommand::from_str            *)
(*   SpecBuild  a block of text through SwarmProgram::from_str             *)
(*   SpecWorld  World::new / add_player / remove_player / update /         *)
(*              get_state                                                  *)
(***************************************************************************)
EXTENDS Integers, Sequences, FiniteSets, TLC

VARIABLES
    typed,      \* SpecParse: the tokens and whitespace the line is made of
    line,       \* SpecParse: the &str handed to SwarmCommand::from_str
    parsed,     \* SpecParse: <<>> before the call, <<result>> after it
    text,       \* SpecBuild: the submitted block of text, as its lines
    built,      \* SpecBuild: <<>> before the call, <<outcome>> after it
    world,      \* SpecWorld: the World
    snapshot,   \* SpecWorld: <<>> or <<the WorldState last returned>>
    panicked,   \* SpecWorld: TRUE once a call has panicked
    joined,     \* SpecWorld: ids whose latest add/remove call was add_player
    last        \* SpecWorld: the latest call and the entity steps it made

vars == <<typed, line, parsed, text, built, world, snapshot, panicked, joined, last>>

parseVars == <<typed, line, parsed>>
buildVars == <<text, built>>
worldVars == <<world, snapshot, panicked, joined, last>>

(***************************************************************************)
(* Result<T, GenericError>                                                 *)
(***************************************************************************)
Ok(v) == [ok |-> TRUE, val |-> v]

Err(description) == [ok |-> FALSE, err |-> description]

(***************************************************************************)
(* Characters and strings                                                  *)
(***************************************************************************)
LowerAlpha ==
    <<"a","b","c","d","e","f","g","h","i","j","k","l","m",
      "n","o","p","q","r","s","t","u","v","w","x","y","z">>

UpperAlpha ==
    <<"A","B","C","D","E","F","G","H","I","J","K","L","M",
      "N","O","P","Q","R","S","T","U","V","W","X","Y","Z">>

Digits == <<"0","1","2","3","4","5","6","7","8","9">>

IndexIn(seq, c) ==
    IF \E i \in 1..Len(seq) : seq[i] = c
    THEN CHOOSE i \in 1..Len(seq) : seq[i] = c
    ELSE 0

\* char::to_uppercase / char::to_lowercase on the ASCII range
UpperChar(c) == IF IndexIn(LowerAlpha, c) > 0 THEN UpperAlpha[IndexIn(LowerAlpha, c)] ELSE c

LowerChar(c) == IF IndexIn(UpperAlpha, c) > 0 THEN LowerAlpha[IndexIn(UpperAlpha, c)] ELSE c

\* str::to_uppercase
to_uppercase(s) == [i \in 1..Len(s) |-> UpperChar(s[i])]

to_lowercase(s) == [i \in 1..Len(s) |-> LowerChar(s[i])]

\* char::is_whitespace, on the characters a line can hold
is_whitespace(c) == c \in {" ", "\t", "\r"}

RECURSIVE TrimStart(_)
TrimStart(s) ==
    IF s # <<>> /\ is_whitespace(Head(s)) THEN TrimStart(Tail(s)) ELSE s

RECURSIVE TrimEnd(_)
TrimEnd(s) ==
    IF s # <<>> /\ is_whitespace(s[Len(s)]) THEN TrimEnd(SubSeq(s, 1, Len(s) - 1)) ELSE s

\* str::trim
trim(s) == TrimEnd(TrimStart(s))

RECURSIVE SplitFrom(_, _, _, _)
SplitFrom(s, i, cur, acc) ==
    IF i > Len(s)
    THEN IF cur = <<>> THEN acc ELSE Append(acc, cur)
    ELSE IF is_whitespace(s[i])
         THEN SplitFrom(s, i + 1, <<>>, IF cur = <<>> THEN acc ELSE Append(acc, cur))
         ELSE SplitFrom(s, i + 1, Append(cur, s[i]), acc)

\* str::split_whitespace().collect(): the maximal runs of non-whitespace
split_whitespace(s) == SplitFrom(s, 1, <<>>, <<>>)

IsDigit(c) == IndexIn(Digits, c) > 0

DigitVal(c) == IndexIn(Digits, c) - 1

AllDigits(s) == \A i \in 1..Len(s) : IsDigit(s[i])

RECURSIVE Pow10(_)
Pow10(n) == IF n <= 0 THEN 1 ELSE 10 * Pow10(n - 1)

RECURSIVE StripZeros(_)
StripZeros(s) == IF s # <<>> /\ Head(s) = "0" THEN StripZeros(Tail(s)) ELSE s

RECURSIVE DigitsVal(_)
DigitsVal(s) == IF s = <<>> THEN 0 ELSE 10 * DigitsVal(SubSeq(s, 1, Len(s) - 1)) + DigitVal(s[Len(s)])

(***************************************************************************)
(* u32: a value is kept as [hi, lo] with value = hi * 10^5 + lo, because   *)
(* u32::MAX = 4294967295 = 42949 * 10^5 + 67295 exceeds the model          *)
(* checker's integers.                                                     *)
(***************************************************************************)
U32(n) == [hi |-> n \div Pow10(5), lo |-> n % Pow10(5)]

\* <u32 as FromStr>::from_str: an optional '+', then one or more decimal
\* digits, the value at most u32::MAX; anything else is an error.
ParseU32(tok) ==
    LET body == IF tok # <<>> /\ Head(tok) = "+" THEN Tail(tok) ELSE tok
        sig  == StripZeros(body)
        n    == Len(sig)
        hi   == IF n > 5 THEN DigitsVal(SubSeq(sig, 1, n - 5)) ELSE 0
        lo   == IF n > 5 THEN DigitsVal(SubSeq(sig, n - 4, n)) ELSE DigitsVal(sig)
    IN  IF body = <<>> \/ ~AllDigits(body) THEN Err("invalid digit found in string")
        ELSE IF n > 10 \/ hi > 42949 \/ (hi = 42949 /\ lo > 67295)
             THEN Err("number too large to fit in target type")
             ELSE Ok([hi |-> hi, lo |-> lo])

(***************************************************************************)
(* f32: a value is kept as its class (std::num::FpCategory), its sign and, *)
(* when finite and non-zero, the decimal m * 10^e it was read from, m not  *)
(* a multiple of 10.  Decimal literals carry at most MaxSig significant    *)
(* digits (MaxSig <= 8); up to eight digits the rounding to binary32       *)
(* changes neither the class computed below nor the order against 30.0     *)
(* (the nearest decimals around 30.0 are 29.999999 and 30.000001, both     *)
(* more than half an ulp away).                                            *)
(***************************************************************************)
MaxSig == 7

F32(cls, neg, m, e) == [cls |-> cls, neg |-> neg, m |-> m, e |-> e]

F32Nan == F32("nan", FALSE, 0, 0)

F32Inf(neg) == F32("infinite", neg, 0, 0)

F32Zero(neg) == F32("zero", neg, 0, 0)

RECURSIVE NumDigits(_)
NumDigits(m) == IF m < 10 THEN 1 ELSE 1 + NumDigits(m \div 10)

RECURSIVE Normalize(_, _)
Normalize(m, e) == IF m # 0 /\ m % 10 = 0 THEN Normalize(m \div 10, e + 1) ELSE <<m, e>>

\* The binary32 value nearest to m * 10^e (m > 0): its class by the decade
\* top (10^(top-1) <= value < 10^top) and the leading eight digits m8.
\*   f32::MAX + half an ulp            = 3.40282356..e38  -> infinite above
\*   midpoint below f32::MIN_POSITIVE  = 1.17549428..e-38 -> subnormal below
\*   half the least subnormal          = 7.00649232..e-46 -> zero below
F32FromDecimal(neg, m0, e0) ==
    IF m0 = 0 THEN F32Zero(neg)
    ELSE LET n   == Normalize(m0, e0)
             m   == n[1]
             e   == n[2]
             nd  == NumDigits(m)
             top == nd + e
             m8  == m * Pow10(8 - nd)
         IN  IF top >= 40 \/ (top = 39 /\ m8 >= 34028236) THEN F32Inf(neg)
             ELSE IF top <= -46 \/ (top = -45 /\ m8 <= 70064923) THEN F32Zero(neg)
             ELSE IF top <= -38 \/ (top = -37 /\ m8 <= 11754942) THEN F32("subnormal", neg, m, e)
             ELSE F32("normal", neg, m, e)

\* <f32 as FromStr>::from_str: [+-] then "inf", "NaN", or a decimal
\* digits[.digits][(e|E)[+-]digits] with at least one mantissa digit.
ParseF32(tok) ==
    LET signed  == tok # <<>> /\ Head(tok) \in {"+", "-"}
        neg     == tok # <<>> /\ Head(tok) = "-"
        body    == IF signed THEN Tail(tok) ELSE tok
        epos    == IF IndexIn(body, "e") > 0 THEN IndexIn(body, "e") ELSE IndexIn(body, "E")
        mant    == IF epos > 0 THEN SubSeq(body, 1, epos - 1) ELSE body
        expo    == IF epos > 0 THEN SubSeq(body, epos + 1, Len(body)) ELSE <<>>
        eneg    == expo # <<>> /\ Head(expo) = "-"
        edigits == IF expo # <<>> /\ Head(expo) \in {"+", "-"} THEN Tail(expo) ELSE expo
        dot     == IndexIn(mant, ".")
        ipart   == IF dot > 0 THEN SubSeq(mant, 1, dot - 1) ELSE mant
        fpart   == IF dot > 0 THEN SubSeq(mant, dot + 1, Len(mant)) ELSE <<>>
        wellformed ==
            /\ AllDigits(ipart) /\ AllDigits(fpart) /\ Len(ipart) + Len(fpart) > 0
            /\ Len(StripZeros(ipart \o fpart)) <= MaxSig
            /\ epos > 0 => (edigits # <<>> /\ AllDigits(edigits) /\ Len(edigits) <= 3)
        e10     == (IF eneg THEN 0 - DigitsVal(edigits) ELSE DigitsVal(edigits)) - Len(fpart)
    IN  IF body = <<"i","n","f">> THEN Ok(F32Inf(neg))
        ELSE IF body = <<"N","a","N">> THEN Ok(F32Nan)
        ELSE IF ~wellformed THEN Err("invalid float literal")
        ELSE Ok(F32FromDecimal(neg, DigitsVal(ipart \o fpart), e10))

\* f32::is_normal
is_normal(v) == v.cls = "normal"

\* f32::abs
abs(v) == IF v.cls = "nan" THEN v ELSE [v EXCEPT !.neg = FALSE]

\* v <= 30.0_f32 (false for NaN)
Le30(v) ==
    CASE v.cls = "nan" -> FALSE
      [] v.cls = "infinite" -> v.neg
      [] v.cls = "zero" -> TRUE
      [] OTHER ->
           \/ v.neg
           \/ IF v.e >= 2 THEN FALSE
              ELSE IF v.e = 1 THEN v.m <= 3
              ELSE IF v.e <= -8 THEN TRUE
              ELSE v.m <= 30 * Pow10(0 - v.e)

(***************************************************************************)
(* swarm_language.rs: SwarmCommand, Formation and their parsers            *)
(***************************************************************************)
S_MOVE == <<"M","O","V","E">>

S_LEFT == <<"L","E","F","T">>

S_RIGHT == <<"R","I","G","H","T">>

S_UP == <<"U","P">>

S_DOWN == <<"D","O","W","N">>

S_FIRE == <<"F","I","R","E">>

S_NOOP == <<"N","O","O","P">>

S_TURN == <<"T","U","R","N">>

S_FORMATION == <<"F","O","R","M","A","T","I","O","N">>

S_GATHER == <<"G","A","T","H","E","R">>

S_SPREAD == <<"S","P","R","E","A","D">>

S_SIERPINSKI == <<"S","I","E","R","P","I","N","S","K","I">>

\* enum SwarmCommand
MOVE == [op |-> "MOVE"]

LEFT == [op |-> "LEFT"]

RIGHT == [op |-> "RIGHT"]

UP == [op |-> "UP"]

DOWN == [op |-> "DOWN"]

FIRE == [op |-> "FIRE"]

NOOP == [op |-> "NOOP"]

TURN(val) == [op |-> "TURN", angle |-> val]

FORMATION(formation) == [op |-> "FORMATION", formation |-> formation]

\* enum Formation
GATHER == [kind |-> "GATHER"]

SPREAD == [kind |-> "SPREAD"]

SIERPINSKI(depth) == [kind |-> "SIERPINSKI", depth |-> depth]

\* impl FromStr for Formation
Formation_from_str(s) ==
    LET name == to_uppercase(s)
    IN  CASE name = S_GATHER -> Ok(GATHER)
          [] name = S_SPREAD -> Ok(SPREAD)
          [] OTHER -> Err("Invalid formation name")

\* TurnArm with the range test made exclusive (val.abs() < 30.0)
TurnArm_exclusive(command) ==
    IF Len(command) = 2
    THEN LET r == ParseF32(command[2])
         IN  IF r.ok
             THEN IF is_normal(r.val)
                  THEN IF Le30(abs(r.val)) /\ abs(r.val) # F32("normal", FALSE, 3, 1)
                       THEN Ok(TURN(r.val))
                       ELSE Err("Input parameter float should range from -30.0 to 30.0.")
                  ELSE Err("Invalid float parameter for TURN.")
             ELSE Err("Invalid float parameter for TURN.")
    ELSE Err("No parameters found for TURN.")

\* The "TURN" arm of SwarmCommand::from_str
TurnArm(command) ==
    IF Len(command) = 2
    THEN LET r == ParseF32(command[2])
         IN  IF r.ok
             THEN IF is_normal(r.val)
                  THEN IF Le30(abs(r.val))
                       THEN Ok(TURN(r.val))
                       ELSE Err("Input parameter float should range from -30.0 to 30.0.")
                  ELSE Err("Invalid float parameter for TURN.")
             ELSE Err("Invalid float parameter for TURN.")
    ELSE Err("No parameters found for TURN.")

\* The "FORMATION" arm of SwarmCommand::from_str
FormationArm(command) ==
    IF Len(command) >= 2
    THEN LET parsedFormation == Formation_from_str(command[2])
             form_string == command[2]
         IN  IF ~parsedFormation.ok THEN parsedFormation
             ELSE IF to_uppercase(form_string) = S_SIERPINSKI
                  THEN IF Len(command) = 3
                       THEN LET depth == ParseU32(command[3])
                            IN  IF depth.ok
                                THEN Ok(FORMATION(SIERPINSKI(depth.val)))
                                ELSE Err("Invalid parameter for Sierpinski formation.")
                       ELSE Err("Insufficient parameters for Sierpinski formation")
                  ELSE Ok(FORMATION(parsedFormation.val))
    ELSE Err("Invalid number of arguments for command FORMATION. FORMATION requires 1 argument")

\* impl FromStr for SwarmCommand
SwarmCommand_from_str(s) ==
    LET command == split_whitespace(trim(s))
    IN  IF Len(command) = 0
        THEN Err("Command is white space (should be non-error).")
        ELSE LET opcode == to_uppercase(command[1])
             IN  CASE opcode = S_MOVE -> Ok(MOVE)
                   [] opcode = S_LEFT -> Ok(LEFT)
                   [] opcode = S_RIGHT -> Ok(RIGHT)
                   [] opcode = S_UP -> Ok(UP)
                   [] opcode = S_DOWN -> Ok(DOWN)
                   [] opcode = S_FIRE -> Ok(FIRE)
                   [] opcode = S_NOOP -> Ok(NOOP)
                   [] opcode = S_TURN -> TurnArm(command)
                   [] opcode = S_FORMATION -> FormationArm(command)
                   [] OTHER -> Err("Command not recognized.")

(***************************************************************************)
(* Inputs of SwarmCommand::from_str.  A line is typed as a list of tokens  *)
(* laid out with leading, separating and trailing whitespace.              *)
(***************************************************************************)
\* Float literals, each with the class of the binary32 value it denotes,
\* whether its magnitude is strictly greater than 30.0, and the value
FloatSamples ==
    { [tok |-> <<"3","0">>, cls |-> "normal", over30 |-> FALSE, val |-> F32("normal", FALSE, 3, 1)],
      [tok |-> <<"3","0",".","0">>, cls |-> "normal", over30 |-> FALSE, val |-> F32("normal", FALSE, 3, 1)],
      [tok |-> <<"-","3","0",".","0">>, cls |-> "normal", over30 |-> FALSE, val |-> F32("normal", TRUE, 3, 1)],
      [tok |-> <<"+","3","0",".","0">>, cls |-> "normal", over30 |-> FALSE, val |-> F32("normal", FALSE, 3, 1)],
      [tok |-> <<"3","0",".","5">>, cls |-> "normal", over30 |-> TRUE, val |-> F32("normal", FALSE, 305, -1)],
      [tok |-> <<"-","3","0",".","5">>, cls |-> "normal", over30 |-> TRUE, val |-> F32("normal", TRUE, 305, -1)],
      [tok |-> <<"2","9",".","5">>, cls |-> "normal", over30 |-> FALSE, val |-> F32("normal", FALSE, 295, -1)],
      [tok |-> <<"-","2","9",".","5">>, cls |-> "normal", over30 |-> FALSE, val |-> F32("normal", TRUE, 295, -1)],
      [tok |-> <<"3","0",".","0","0","0","0","1">>, cls |-> "normal", over30 |-> TRUE, val |-> F32("normal", FALSE, 3000001, -5)],
      [tok |-> <<"2","9",".","9","9","9","9","9">>, cls |-> "normal", over30 |-> FALSE, val |-> F32("normal", FALSE, 2999999, -5)],
      [tok |-> <<"3","1">>, cls |-> "normal", over30 |-> TRUE, val |-> F32("normal", FALSE, 31, 0)],
      [tok |-> <<"-","4","5">>, cls |-> "normal", over30 |-> TRUE, val |-> F32("normal", TRUE, 45, 0)],
      [tok |-> <<"1">>, cls |-> "normal", over30 |-> FALSE, val |-> F32("normal", FALSE, 1, 0)],
      [tok |-> <<".","5">>, cls |-> "normal", over30 |-> FALSE, val |-> F32("normal", FALSE, 5, -1)],
      [tok |-> <<"5",".">>, cls |-> "normal", over30 |-> FALSE, val |-> F32("normal", FALSE, 5, 0)],
      [tok |-> <<"3","e","1">>, cls |-> "normal", over30 |-> FALSE, val |-> F32("normal", FALSE, 3, 1)],
      [tok |-> <<"3",".","1","E","1">>, cls |-> "normal", over30 |-> TRUE, val |-> F32("normal", FALSE, 31, 0)],
      [tok |-> <<"3","0","0","e","-","1">>, cls |-> "normal", over30 |-> FALSE, val |-> F32("normal", FALSE, 3, 1)],
      [tok |-> <<"0",".","0","0","1">>, cls |-> "normal", over30 |-> FALSE, val |-> F32("normal", FALSE, 1, -3)],
      [tok |-> <<"3",".","4","e","3","8">>, cls |-> "normal", over30 |-> TRUE, val |-> F32("normal", FALSE, 34, 37)],
      [tok |-> <<"1",".","1","7","5","4","9","5","e","-","3","8">>, cls |-> "normal", over30 |-> FALSE, val |-> F32("normal", FALSE, 1175495, -44)],
      [tok |-> <<"-","2","e","-","3","8">>, cls |-> "normal", over30 |-> FALSE, val |-> F32("normal", TRUE, 2, -38)],
      [tok |-> <<"0">>, cls |-> "zero", over30 |-> FALSE, val |-> F32Zero(FALSE)],
      [tok |-> <<"0",".","0">>, cls |-> "zero", over30 |-> FALSE, val |-> F32Zero(FALSE)],
      [tok |-> <<"-","0">>, cls |-> "zero", over30 |-> FALSE, val |-> F32Zero(TRUE)],
      [tok |-> <<"1","e","-","4","6">>, cls |-> "zero", over30 |-> FALSE, val |-> F32Zero(FALSE)],
      [tok |-> <<"1","e","-","4","0">>, cls |-> "subnormal", over30 |-> FALSE, val |-> F32("subnormal", FALSE, 1, -40)],
      [tok |-> <<"-","1","e","-","4","0">>, cls |-> "subnormal", over30 |-> FALSE, val |-> F32("subnormal", TRUE, 1, -40)],
      [tok |-> <<"1",".","1","7","5","4","9","4","e","-","3","8">>, cls |-> "subnormal", over30 |-> FALSE, val |-> F32("subnormal", FALSE, 1175494, -44)],
      [tok |-> <<"7",".","1","e","-","4","6">>, cls |-> "subnormal", over30 |-> FALSE, val |-> F32("subnormal", FALSE, 71, -47)],
      [tok |-> <<"1","e","3","9">>, cls |-> "infinite", over30 |-> TRUE, val |-> F32Inf(FALSE)],
      [tok |-> <<"-","1","e","3","9">>, cls |-> "infinite", over30 |-> TRUE, val |-> F32Inf(TRUE)],
      [tok |-> <<"3",".","5","e","3","8">>, cls |-> "infinite", over30 |-> TRUE, val |-> F32Inf(FALSE)],
      [tok |-> <<"i","n","f">>, cls |-> "infinite", over30 |-> TRUE, val |-> F32Inf(FALSE)],
      [tok |-> <<"-","i","n","f">>, cls |-> "infinite", over30 |-> TRUE, val |-> F32Inf(TRUE)],
      [tok |-> <<"N","a","N">>, cls |-> "nan", over30 |-> FALSE, val |-> F32Nan] }

\* Tokens that are no float literal
NotFloats ==
    { <<"a","b","c">>, <<"3","x">>, <<"1","e">>, <<".">>, <<"-">>, <<"1",".","2",".","3">>, <<"3","0",",","0">> }

\* Decimal literals of u32 values, each with its value as [hi, lo]
U32Samples ==
    { [tok |-> <<"0">>, val |-> [hi |-> 0, lo |-> 0]],
      [tok |-> <<"3">>, val |-> [hi |-> 0, lo |-> 3]],
      [tok |-> <<"0","0","7">>, val |-> [hi |-> 0, lo |-> 7]],
      [tok |-> <<"+","3">>, val |-> [hi |-> 0, lo |-> 3]],
      [tok |-> <<"2","0">>, val |-> [hi |-> 0, lo |-> 20]],
      [tok |-> <<"1","0","0","0","0","0">>, val |-> [hi |-> 1, lo |-> 0]],
      [tok |-> <<"4","2","9","4","9","6","7","2","9","5">>, val |-> [hi |-> 42949, lo |-> 67295]] }

\* Tokens that are no u32 literal
NotU32s ==
    { <<"-","1">>, <<"3",".","0">>, <<"x">>, <<"4","2","9","4","9","6","7","2","9","6">>, <<"9","9","9","9","9","9","9","9","9","9","9">> }

FixedOpcodes == {S_MOVE, S_LEFT, S_RIGHT, S_UP, S_DOWN, S_FIRE, S_NOOP}

Opcodes == FixedOpcodes \cup {S_TURN, S_FORMATION}

\* Upper, lower and alternating letter-casings of a word
Casings(w) ==
    { w, to_lowercase(w),
      [i \in 1..Len(w) |-> IF i % 2 = 1 THEN LowerChar(w[i]) ELSE UpperChar(w[i])] }

OpTokens ==
    UNION {Casings(w) : w \in Opcodes} \cup { <<"F","O","O","B","A","R">>, <<"t","e","s","t">>, <<"M","O","V","E","S">> }

\* Tokens that may follow any opcode
ArgTokens ==
    { <<"3","0",".","0">>, <<"x">>, <<"g","a","t","h","e","r">>, <<"S","P","R","E","A","D">>, <<"S","i","e","r","p","i","n","s","k","i">>, <<"3">> }

MaxArgs == 2

RECURSIVE SeqsUpTo(_, _)
SeqsUpTo(S, n) ==
    IF n = 0 THEN {<<>>}
    ELSE LET shorter == SeqsUpTo(S, n - 1)
         IN  shorter \cup {Append(q, x) : q \in shorter, x \in S}

TokenLists ==
    {<<>>}
    \cup {<<op>> \o args : op \in OpTokens, args \in SeqsUpTo(ArgTokens, MaxArgs)}
    \cup {<<op, f>> : op \in Casings(S_TURN), f \in {x.tok : x \in FloatSamples} \cup NotFloats}
    \cup {<<op, name, n>> : op \in Casings(S_FORMATION), name \in Casings(S_SIERPINSKI),
                            n \in {x.tok : x \in U32Samples} \cup NotU32s}

Layouts ==
    { [lead |-> <<>>, sep |-> <<" ">>, trail |-> <<>>],
      [lead |-> <<" ", "\t">>, sep |-> <<"\t", " ">>, trail |-> <<" ", "\r">>] }

RECURSIVE Join(_, _)
Join(tokens, sep) ==
    IF tokens = <<>> THEN <<>>
    ELSE IF Len(tokens) = 1 THEN tokens[1]
    ELSE tokens[1] \o sep \o Join(Tail(tokens), sep)

Render(layout, tokens) == layout.lead \o Join(tokens, layout.sep) \o layout.trail

InitParse ==
    /\ typed \in [layout : Layouts, tokens : TokenLists]
    /\ line = Render(typed.layout, typed.tokens)
    /\ parsed = <<>>
    /\ text = <<>> /\ built = <<>>
    /\ world = <<>> /\ snapshot = <<>> /\ panicked = FALSE /\ joined = {} /\ last = <<>>

\* line.parse::<SwarmCommand>()
ParseLine ==
    /\ parsed = <<>>
    /\ parsed' = <<SwarmCommand_from_str(line)>>
    /\ UNCHANGED <<typed, line, buildVars, worldVars>>

NextParse == ParseLine

SpecParse == InitParse /\ [][NextParse]_vars

(***************************************************************************)
(* Claims about SwarmCommand::from_str (checked under SpecParse)           *)
(***************************************************************************)
ParsedTyped == parsed # <<>>

\* C1: for every u32 value n and every letter-casing of the two words, the
\* three-token line "FORMATION SIERPINSKI n" parses successfully to the
\* formation command carrying SIERPINSKI with depth n.
C1_SierpinskiWithDepthParses ==
    \A n \in U32Samples :
        ( /\ ParsedTyped
          /\ Len(typed.tokens) = 3
          /\ typed.tokens[1] \in Casings(S_FORMATION)
          /\ typed.tokens[2] \in Casings(S_SIERPINSKI)
          /\ typed.tokens[3] = n.tok )
        => parsed[1] = Ok(FORMATION(SIERPINSKI(n.val)))

\* C2: a line whose first token is a fixed-arity opcode (any casing) is
\* accepted only when it consists of exactly that one token; with one or
\* more further tokens it is rejected with an error.
C2_FixedArityRejectsExtraTokens ==
    ( /\ ParsedTyped
      /\ Len(typed.tokens) >= 2
      /\ to_uppercase(typed.tokens[1]) \in FixedOpcodes )
    => ~parsed[1].ok

\* C6: TURN (any casing) with exactly one numeric token v is rejected when v
\* is NaN, infinite or subnormal, rejected when |v| > 30.0, and accepted as
\* TURN(v), v unchanged, when v is normal with |v| <= 30.0 (the bounds
\* +30.0 and -30.0 included); TURN with zero or with two or more argument
\* tokens is rejected.
C6_TurnArgument ==
    ( /\ ParsedTyped
      /\ Len(typed.tokens) >= 1
      /\ typed.tokens[1] \in Casings(S_TURN) )
    => IF Len(typed.tokens) = 2
       THEN \A x \in FloatSamples :
                typed.tokens[2] = x.tok =>
                    /\ x.cls \in {"nan", "infinite", "subnormal"} => ~parsed[1].ok
                    /\ x.over30 => ~parsed[1].ok
                    /\ (x.cls = "normal" /\ ~x.over30) => parsed[1] = Ok(TURN(x.val))
       ELSE ~parsed[1].ok

\* C6 witness: a mixed-case turn by exactly -30.0 has been accepted
C6_Witness ==
    /\ ParsedTyped
    /\ Len(typed.tokens) = 2
    /\ typed.tokens[1] = <<"t","U","r","N">>
    /\ typed.tokens[2] = <<"-","3","0",".","0">>
    /\ parsed[1] = Ok(TURN(F32("normal", TRUE, 3, 1)))

(***************************************************************************)
(* swarm_language.rs: SwarmProgram and its builder                         *)
(***************************************************************************)
MAX_NUM_COMMANDS == 20

\* SwarmProgram::new
SwarmProgram_new(commands) == [commands |-> commands, program_counter |-> 0]

IsBlank(l) == trim(l) = <<>>

RECURSIVE DropBlankStart(_)
DropBlankStart(ls) ==
    IF ls # <<>> /\ IsBlank(Head(ls)) THEN DropBlankStart(Tail(ls)) ELSE ls

RECURSIVE DropBlankEnd(_)
DropBlankEnd(ls) ==
    IF ls # <<>> /\ IsBlank(ls[Len(ls)]) THEN DropBlankEnd(SubSeq(ls, 1, Len(ls) - 1)) ELSE ls

\* s.trim().lines(), s given as its lines: whitespace-only lines at either
\* end of the text disappear, the first remaining line loses its leading
\* and the last its trailing whitespace
trim_lines(ls) ==
    LET kept == DropBlankEnd(DropBlankStart(ls))
    IN  [i \in 1..Len(kept) |->
            LET a == IF i = 1 THEN TrimStart(kept[i]) ELSE kept[i]
            IN  IF i = Len(kept) THEN TrimEnd(a) ELSE a]

\* Push that puts the command in front
Push_front(command_list, comm) == <<comm>> \o command_list

\* command_list.push(comm)
Push(command_list, comm) == Append(command_list, comm)

\* SkipLine that lets every failing line pass
SkipLine_any(l) == TRUE

\* if line.trim().is_empty() { continue }
SkipLine(l) == trim(l) = <<>>

\* TooLong with the comparison off by one (>=)
TooLong_ge(command_list) == Len(command_list) >= MAX_NUM_COMMANDS

\* if command_list.len() > MAX_NUM_COMMANDS
TooLong(command_list) == Len(command_list) > MAX_NUM_COMMANDS

\* The for loop of SwarmProgram::from_str from the i-th line on.  The
\* outcome holds the Result and the number of lines the loop has taken
\* from the iterator.
RECURSIVE BuildLoop(_, _, _)
BuildLoop(ls, i, command_list) ==
    IF i > Len(ls)
    THEN [result |-> Ok(SwarmProgram_new(command_list)), examined |-> Len(ls)]
    ELSE LET r == SwarmCommand_from_str(ls[i])
         IN  IF r.ok
             THEN IF TooLong(Push(command_list, r.val))
                  THEN [result   |-> Err("Program is too long: use fewer commands."),
                        examined |-> i]
                  ELSE BuildLoop(ls, i + 1, Push(command_list, r.val))
             ELSE IF SkipLine(ls[i])
                  THEN BuildLoop(ls, i + 1, command_list)
                  ELSE [result |-> r, examined |-> i]

\* impl FromStr for SwarmProgram
SwarmProgram_from_str(ls) == BuildLoop(trim_lines(ls), 1, <<>>)

(***************************************************************************)
(* Inputs of SwarmProgram::from_str: a block of text is typed line by     *)
(* line and then submitted.  The first MaxHeadLines lines are drawn       *)
(* freely; after them a line other than the filler command is typed only   *)
(* while the text holds fewer than MaxOtherLines such lines.               *)
(***************************************************************************)
FillerLine == S_MOVE

OtherLines ==
    { <<>>,
      <<" ","\t">>,
      <<" "," ","f","i","r","e","\t">>,
      <<"T","U","R","N"," ","-","3","0",".","0">>,
      <<"t","e","s","t">>,
      <<"T","U","R","N"," ","4","5">>,
      <<"f","o","r","m","a","t","i","o","n"," "," ","S","p","r","e","a","d">> }

MaxLines == 22

MaxHeadLines == 3

MaxOtherLines == 1

OtherCount(ls) == Cardinality({i \in 1..Len(ls) : ls[i] # FillerLine})

InitBuild ==
    /\ text = <<>>
    /\ built = <<>>
    /\ typed = <<>> /\ line = <<>> /\ parsed = <<>>
    /\ world = <<>> /\ snapshot = <<>> /\ panicked = FALSE /\ joined = {} /\ last = <<>>

\* One more line of the script
TypeLine(l) ==
    /\ built = <<>>
    /\ Len(text) < MaxLines
    /\ l # FillerLine => (Len(text) < MaxHeadLines \/ OtherCount(text) < MaxOtherLines)
    /\ text' = Append(text, l)
    /\ UNCHANGED <<built, parseVars, worldVars>>

\* text.parse::<SwarmProgram>()
Submit ==
    /\ built = <<>>
    /\ built' = <<SwarmProgram_from_str(text)>>
    /\ UNCHANGED <<text, parseVars, worldVars>>

NextBuild ==
    \/ \E l \in {FillerLine} \cup OtherLines : TypeLine(l)
    \/ Submit

SpecBuild == InitBuild /\ [][NextBuild]_vars

(***************************************************************************)
(* Claims about SwarmProgram::from_str (checked under SpecBuild)           *)
(***************************************************************************)
Built == built # <<>>

NonBlank(ls) == SelectSeq(ls, LAMBDA l : ~IsBlank(l))

\* Every non-blank line of the text is a valid command
AllValid(ls) == \A i \in 1..Len(ls) : IsBlank(ls[i]) \/ SwarmCommand_from_str(ls[i]).ok

BadLines(ls) == {i \in 1..Len(ls) : ~IsBlank(ls[i]) /\ ~SwarmCommand_from_str(ls[i]).ok}

FirstBad(ls) == CHOOSE i \in BadLines(ls) : \A j \in BadLines(ls) : i <= j

\* Whitespace-only lines at the start of the text, which s.trim() removes
LeadingBlank(ls) == Cardinality({i \in 1..Len(ls) : \A h \in 1..i : IsBlank(ls[h])})

\* C3: for a text whose non-blank lines are all valid commands, k of them,
\* with any blank lines interspersed, the builder succeeds iff k <= 20 and
\* fails with the program-too-long error when k > 20; every Program the
\* builder returns holds at most 20 commands.
C3_LengthBound ==
    Built =>
        /\ AllValid(text) =>
              /\ built[1].result.ok <=> Len(NonBlank(text)) <= 20
              /\ Len(NonBlank(text)) > 20 =>
                    built[1].result = Err("Program is too long: use fewer commands.")
        /\ built[1].result.ok => Len(built[1].result.val.commands) <= 20

\* C3 witness: exactly 20 valid commands with a blank line among them built
C3_Witness ==
    /\ Built
    /\ AllValid(text)
    /\ Len(NonBlank(text)) = 20
    /\ Len(text) > 20
    /\ ~IsBlank(text[1]) /\ ~IsBlank(text[Len(text)])
    /\ built[1].result.ok

\* C4: when the builder succeeds, the i-th command of the Program is the
\* parse of the i-th non-blank line of the text, blank and whitespace-only
\* lines contribute no command, and the cursor is 0.
C4_CommandsInTextOrder ==
    (Built /\ built[1].result.ok) =>
        LET program == built[1].result.val
            lines   == NonBlank(text)
        IN  /\ Len(program.commands) = Len(lines)
            /\ \A i \in 1..Len(lines) :
                  /\ i <= Len(program.commands)
                  /\ SwarmCommand_from_str(lines[i]) = Ok(program.commands[i])
            /\ program.program_counter = 0

\* C4 witness: a program of several different commands built from a text
\* with a blank line between two commands
C4_Witness ==
    /\ Built
    /\ built[1].result.ok
    /\ \E i \in 2..(Len(text) - 1) : IsBlank(text[i]) /\ ~IsBlank(text[1]) /\ ~IsBlank(text[Len(text)])
    /\ Len(built[1].result.val.commands) >= 3
    /\ built[1].result.val.commands[1] # built[1].result.val.commands[2]
    /\ built[1].result.val.commands[2] # built[1].result.val.commands[3]

\* C5: when a non-blank line fails to parse before any too-long rejection,
\* the builder stops at that line and returns exactly that line's parser
\* error: no later line is examined and no Program is returned.
C5_FirstErrorAborts ==
    (Built /\ BadLines(text) # {}) =>
        LET j == FirstBad(text)
        IN  Len(NonBlank(SubSeq(text, 1, j - 1))) <= 20 =>
                /\ ~built[1].result.ok
                /\ built[1].result = SwarmCommand_from_str(text[j])
                /\ built[1].examined = j - LeadingBlank(text)

\* C5 witness: an unrecognized line after some commands and before further
\* lines has aborted the build
C5_Witness ==
    /\ Built
    /\ BadLines(text) # {}
    /\ FirstBad(text) > 1 /\ FirstBad(text) < Len(text)
    /\ Len(NonBlank(SubSeq(text, 1, FirstBad(text) - 1))) >= 1
    /\ built[1].result = Err("Command not recognized.")

(***************************************************************************)
(* world.rs: World and WorldState                                          *)
(*                                                                         *)
(* The entities (entity.rs: Swarm, Bullet) are not part of world.rs; a     *)
(* swarm is its spawn position, its color and the number of steps it has   *)
(* taken, a bullet the number of steps it has taken.                       *)
(***************************************************************************)
PlayerIds == {1, 2}

\* Arena sizes: at most, exactly and just above twice the margin
Dims == {80, 100, 101}

\* (u8, u8, u8) samples of random_color
ColorSamples == {<<0, 0, 0>>, <<255, 128, 7>>}

MaxTicks == 2

MaxBullets == 2

EmptyMap == [k \in {} |-> 0]

\* HashMap::insert
Insert(m, k, v) == [x \in DOMAIN m \cup {k} |-> IF x = k THEN v ELSE m[x]]

\* HashMap::remove
Remove(m, k) == [x \in DOMAIN m \ {k} |-> m[x]]

\* Swarm::new
Swarm_new(x, y) == [x |-> x, y |-> y, color |-> <<0, 0, 0>>, ticks |-> 0]

\* Swarm::with_color
with_color(swarm, color) == [swarm EXCEPT !.color = color]

\* Swarm::update(world_width, world_height): one step of the entity
Swarm_update(swarm, world_width, world_height) == [swarm EXCEPT !.ticks = @ + 1]

Bullet_new == [ticks |-> 0]

\* Bullet::update(): one step of the entity
Bullet_update(bullet) == [bullet EXCEPT !.ticks = @ + 1]

\* World::new
World_new(width, height) ==
    [width |-> width, height |-> height, swarms |-> EmptyMap, bullets |-> <<>>]

\* World::with_capacity: the capacity only pre-sizes the storage
World_with_capacity(width, height, capacity) ==
    [width |-> width, height |-> height, swarms |-> EmptyMap, bullets |-> <<>>]

margin == 50

\* Rng::gen_range(low, high) asserts low < high and panics otherwise
gen_range_panics(low, high) == ~(low < high)

\* Rng::gen_range(low, high): a value of [low, high); the least and the
\* greatest whole value of the range stand for it
gen_range(low, high) == {v \in {low, high - 1} : low <= v /\ v < high}

\* World::random_position panics when either gen_range call does
random_position_panics(w) ==
    \/ gen_range_panics(margin, w.width - margin)
    \/ gen_range_panics(margin, w.height - margin)

\* World::random_position: the positions it can return
random_position(w) ==
    gen_range(margin, w.width - margin) \X gen_range(margin, w.height - margin)

\* World::random_color: the colors it can return
random_color == ColorSamples

\* The swarm mapping after World::add_player(id) has inserted the swarm
add_player_insert(w, id, pos, color) ==
    [w EXCEPT !.swarms = Insert(w.swarms, id, with_color(Swarm_new(pos[1], pos[2]), color))]

\* The World after World::remove_player(id)
remove_player_remove(w, id) == [w EXCEPT !.swarms = Remove(w.swarms, id)]

\* update_swarms that misses the swarm of the least id
update_swarms_skip(w) ==
    [w EXCEPT !.swarms =
        [id \in DOMAIN w.swarms |->
            IF \A other \in DOMAIN w.swarms : id <= other
            THEN w.swarms[id]
            ELSE Swarm_update(w.swarms[id], w.width, w.height)]]

\* The first loop of World::update
update_swarms(w) ==
    [w EXCEPT !.swarms = [id \in DOMAIN w.swarms |-> Swarm_update(w.swarms[id], w.width, w.height)]]

\* The second loop of World::update
update_bullets(w) ==
    [w EXCEPT !.bullets = [i \in 1..Len(w.bullets) |-> Bullet_update(w.bullets[i])]]

\* The entity steps World::update makes when swarms.iter_mut() yields the
\* ids in the given order: the swarm steps, then the bullet steps
update_steps(w, order) ==
    [i \in 1..Len(order) |->
        [entity |-> "swarm", key |-> order[i], args |-> <<w.width, w.height>>]]
    \o [i \in 1..Len(w.bullets) |-> [entity |-> "bullet", key |-> i, args |-> <<>>]]

\* The orders in which a HashMap may yield its keys
Orders(keys) ==
    {o \in [1..Cardinality(keys) -> keys] : \A i, j \in 1..Cardinality(keys) : o[i] = o[j] => i = j}

\* get_state that leaves the bullets out of the copy
get_state_no_bullets(w) == [swarms |-> w.swarms, bullets |-> <<>>]

\* World::get_state
get_state(w) == [swarms |-> w.swarms, bullets |-> w.bullets]

Call(op) == [op |-> op, steps |-> <<>>]

InitWorld ==
    /\ \E width, height \in Dims :
          world \in {World_new(width, height), World_with_capacity(width, height, 8)}
    /\ snapshot = <<>>
    /\ panicked = FALSE
    /\ joined = {}
    /\ last = Call("new")
    /\ typed = <<>> /\ line = <<>> /\ parsed = <<>>
    /\ text = <<>> /\ built = <<>>

\* World::add_player
add_player(id) ==
    /\ ~panicked
    /\ joined' = joined \cup {id}
    /\ last' = [op |-> "add_player", id |-> id, steps |-> <<>>]
    /\ \/ /\ random_position_panics(world)
          /\ panicked' = TRUE
          /\ UNCHANGED world
       \/ /\ ~random_position_panics(world)
          /\ \E pos \in random_position(world), color \in random_color :
                world' = add_player_insert(world, id, pos, color)
          /\ UNCHANGED panicked
    /\ UNCHANGED <<snapshot, parseVars, buildVars>>

\* World::remove_player
remove_player(id) ==
    /\ ~panicked
    /\ joined' = joined \ {id}
    /\ last' = [op |-> "remove_player", id |-> id, steps |-> <<>>]
    /\ world' = remove_player_remove(world, id)
    /\ UNCHANGED <<snapshot, panicked, parseVars, buildVars>>

\* World::update
update ==
    /\ ~panicked
    /\ \A id \in DOMAIN world.swarms : world.swarms[id].ticks < MaxTicks
    /\ \A i \in 1..Len(world.bullets) : world.bullets[i].ticks < MaxTicks
    /\ \E order \in Orders(DOMAIN world.swarms) :
          last' = [op |-> "update", steps |-> update_steps(world, order)]
    /\ world' = update_bullets(update_swarms(world))
    /\ UNCHANGED <<snapshot, panicked, joined, parseVars, buildVars>>

\* World::get_state
take_state ==
    /\ ~panicked
    /\ snapshot' = <<get_state(world)>>
    /\ last' = Call("get_state")
    /\ UNCHANGED <<world, panicked, joined, parseVars, buildVars>>

\* The entity layer appends a bullet (a swarm's FIRE); world.rs itself
\* never pushes to World::bullets
entity_fire ==
    /\ ~panicked
    /\ Len(world.bullets) < MaxBullets
    /\ world' = [world EXCEPT !.bullets = Append(@, Bullet_new)]
    /\ last' = Call("fire")
    /\ UNCHANGED <<snapshot, panicked, joined, parseVars, buildVars>>

NextWorld ==
    \/ \E id \in PlayerIds : add_player(id)
    \/ \E id \in PlayerIds : remove_player(id)
    \/ update
    \/ take_state
    \/ entity_fire

SpecWorld == InitWorld /\ [][NextWorld]_vars

(***************************************************************************)
(* Claims about World (checked under SpecWorld)                            *)
(***************************************************************************)
\* C7: on every World constructed with finite positive width and height,
\* add_player(id) never fails: it completes and leaves a swarm stored
\* under id.
C7_AddPlayerNeverFails ==
    last.op = "add_player" => (~panicked /\ last.id \in DOMAIN world.swarms)

\* C8: after any sequence of add_player, remove_player, update and
\* get_state calls on a fresh World, the keys of the swarm mapping are
\* exactly the ids whose most recent add_player/remove_player call was
\* add_player.
C8_KeysAreJoinedIds == DOMAIN world.swarms = joined

\* The same, for the Worlds on which no call has panicked
KeysAreJoinedIdsUnlessPanicked == ~panicked => DOMAIN world.swarms = joined

\* C9: the snapshot get_state() returns holds exactly the swarm mapping and
\* the bullets the World holds at the call, get_state() leaves the World
\* unchanged, and no later call changes a snapshot already returned.
C9_SnapshotIsACopy ==
    [][ /\ last'.op = "get_state" =>
              /\ snapshot' = <<[swarms |-> world.swarms, bullets |-> world.bullets]>>
              /\ world' = world
        /\ last'.op # "get_state" => snapshot' = snapshot ]_vars

\* C9 witness: a snapshot holding a swarm and a bullet, and a World whose
\* swarms and bullets have both changed since
C9_Witness ==
    /\ snapshot # <<>>
    /\ DOMAIN snapshot[1].swarms # {}
    /\ snapshot[1].bullets # <<>>
    /\ snapshot[1].swarms # world.swarms
    /\ snapshot[1].bullets # world.bullets
    /\ last.op = "update"

\* C10: update() steps every swarm of the mapping exactly once, passing the
\* world's width and height, then every bullet exactly once, all swarm
\* steps before any bullet step; it adds or removes no swarm and no bullet
\* and leaves width and height unchanged.
C10_UpdateStepsEachEntityOnce ==
    [][ last'.op = "update" =>
          LET steps == last'.steps
              StepsOf(entity, key) ==
                  {i \in 1..Len(steps) : steps[i].entity = entity /\ steps[i].key = key}
          IN  /\ DOMAIN world'.swarms = DOMAIN world.swarms
              /\ Len(world'.bullets) = Len(world.bullets)
              /\ world'.width = world.width /\ world'.height = world.height
              /\ \A id \in DOMAIN world.swarms :
                    /\ world'.swarms[id].ticks = world.swarms[id].ticks + 1
                    /\ Cardinality(StepsOf("swarm", id)) = 1
                    /\ \A i \in StepsOf("swarm", id) :
                          steps[i].args = <<world.width, world.height>>
              /\ \A b \in 1..Len(world.bullets) :
                    /\ world'.bullets[b].ticks = world.bullets[b].ticks + 1
                    /\ Cardinality(StepsOf("bullet", b)) = 1
              /\ Len(steps) = Cardinality(DOMAIN world.swarms) + Len(world.bullets)
              /\ \A i, j \in 1..Len(steps) :
                    (steps[i].entity = "swarm" /\ steps[j].entity = "bullet") => i < j
      ]_vars

\* C10 witness: an update has stepped two swarms and two bullets, one of
\* the swarms for the second time
C10_Witness ==
    /\ last.op = "update"
    /\ Cardinality(DOMAIN world.swarms) = 2
    /\ Len(world.bullets) = 2
    /\ Len(last.steps) = 4
    /\ \E id \in DOMAIN world.swarms : world.swarms[id].ticks = 2
    /\ \E id \in DOMAIN world.swarms : world.swarms[id].ticks = 1

====
